---- MODULE Spec2Model ----
(***************************************************************************)
(* organize: the Copy action (organize/actions/copy.py).                   *)
(*                                                                         *)
(* The state is a small filesystem (a home folder holding the folders      *)
(* Desktop and PDF), the system trash, one Copy instance, and the position *)
(* and locals of the Copy.run call in flight.  Copy.run is cut at its      *)
(* filesystem calls, so that another process can be interleaved with it    *)
(* (SpecRace) and a failing mkdir or copy can end it early.                *)
(***************************************************************************)
EXTENDS Naturals, Sequences, FiniteSets

VARIABLES
    fs,             \* the filesystem: path -> node
    trash,          \* the system trash: set of [path, node] of trashed files
    self,           \* the Copy instance: [dest, overwrite]
    attrs,          \* the attrs dict handed to run
    simulate,       \* run's simulate argument
    pc,             \* position of the call in flight
    expanded_dest,  \* local of run
    new_path,       \* local of run
    msgs,           \* what self.print has emitted in this call
    result,         \* "unset", "None" (returned), "raised" (propagated error)
    calls,          \* number of calls of run so far
    others,         \* number of files another process has created
    otherAt,        \* where and when it created them: set of [path, at, after]
    \* history of the call in flight, read by the properties only
    orig,           \* the filesystem before the first call
    fs0,            \* the filesystem at the call's entry
    trash0,         \* the trash at the call's entry
    attrs0,         \* attrs at the call's entry
    resolved,       \* new_path as resolved at line 89
    fsCheck,        \* the filesystem at the existence check of line 90
    conflict,       \* the outcome of the condition of line 90
    steps,          \* the filesystem steps the call has run, in order
    written,        \* the paths shutil.copy2 has opened for writing
    prev            \* SpecPair: the call before this one, when it changed nothing

vars == <<fs, trash, self, attrs, simulate, pc, expanded_dest, new_path, msgs,
          result, calls, others, otherAt, orig, fs0, trash0, attrs0, resolved, fsCheck,
          conflict, steps, written, prev>>

---------------------------------------------------------------------------
(* Bounds *)

\* largest counter find_unused_filename may append
MaxSuffix == 2
\* calls of Copy.run in one behaviour
MaxCalls == 2
\* files another process may create (SpecRace)
MaxOther == 1
\* the time of a write made now; every file of Init is older
Now == 2

---------------------------------------------------------------------------
(* Paths: a path is a sequence of components below the home folder, a      *)
(* component is a name with the counter find_unused_filename appended      *)
(* (n = 0: none).                                                          *)

C(s, k) == [stem |-> s, n |-> k]
N(s) == C(s, 0)

Home == << >>
Tilde == N("~")
TagExtUpper == N("{extension.upper}")

Folders == {"Desktop", "PDF"}
FileStems == {"a", "b"}

Paths ==
    { <<C(d, k)>> : d \in Folders, k \in 0..MaxSuffix }
    \cup { <<N(d), C(s, k)>> : d \in Folders, s \in FileStems, k \in 0..MaxSuffix }

Parent(p) == SubSeq(p, 1, Len(p) - 1)
Name(p) == p[Len(p)]
WithName(p, c) == Append(Parent(p), c)
\* p is q or lies below q
Under(p, q) == Len(q) <= Len(p) /\ SubSeq(p, 1, Len(q)) = q

---------------------------------------------------------------------------
(* Filesystem nodes *)

NoNode == [kind |-> "none", data |-> 0, mtime |-> 0]
Dir == [kind |-> "dir", data |-> 0, mtime |-> 0]
File(d, t) == [kind |-> "file", data |-> d, mtime |-> t]
\* what a copy cut short by an error leaves at its destination
Truncated == File(0, Now)

Exists(f, p) == p = Home \/ (p \in DOMAIN f /\ f[p].kind # "none")
IsDir(f, p) == p = Home \/ (p \in DOMAIN f /\ f[p].kind = "dir")
IsFile(f, p) == p \in DOMAIN f /\ f[p].kind = "file"
\* Path.samefile: both paths name the same existing file (no links here)
SameFile(f, p, q) == p = q

---------------------------------------------------------------------------
(* Destination strings: the segments between separators and the trailing   *)
(* separator ("" when the string ends in a name).                          *)

Template(segs, sep) == [segs |-> segs, sep |-> sep]

\* the dest strings a Copy is constructed with
Dests ==
    { Template(<<Tilde, N("Desktop")>>, "/"),
      Template(<<Tilde, N("Desktop")>>, ""),
      Template(<<Tilde, TagExtUpper>>, "/"),
      Template(<<N("PDF")>>, ""),
      Template(<<Tilde, N("PDF"), N("b")>>, "") }

Upper(s) == IF s = "pdf" THEN "PDF" ELSE s

\* Action.fill_template_tags: every placeholder replaced by the attrs value
fill_template_tags(dest, a) ==
    Template([i \in 1..Len(dest.segs) |->
                 IF dest.segs[i] = TagExtUpper THEN N(Upper(a.extension))
                 ELSE dest.segs[i]],
             dest.sep)

\* a variant that leaves a folder destination as it is (no file name appended)
ExpandedDest_NoJoin(dest, a) == fill_template_tags(dest, a)

\* expanded_dest.endswith(('\\', '/'))
EndsWithSep(e) == e.sep \in {"\\", "/"}

\* os.path.join(expanded_dest, path.name)
OsPathJoin(e, name) == Template(Append(e.segs, name), "")

\* lines 83-87: the expanded destination, the file name appended to a folder
ExpandedDest(dest, a) ==
    LET e == fill_template_tags(dest, a)
    IN  IF EndsWithSep(e) THEN OsPathJoin(e, Name(a.path)) ELSE e

\* utils.fullpath: the user's home for "~", an absolute path
fullpath(e) ==
    IF Len(e.segs) > 0 /\ Head(e.segs) = Tilde THEN Home \o Tail(e.segs)
    ELSE Home \o e.segs

\* a variant without the samefile test
ConflictAt_NoSameFile(f, np, p) == Exists(f, np)

\* line 90
ConflictAt(f, np, p) == Exists(f, np) /\ ~SameFile(f, np, p)

\* first counter find_unused_filename tries
FirstSuffix == 1

UnusedSuffixes(f, p) ==
    { k \in FirstSuffix..MaxSuffix : ~Exists(f, WithName(p, C(Name(p).stem, k))) }

\* utils.find_unused_filename: the sibling with the first counter no file has
find_unused_filename(f, p) ==
    LET k == CHOOSE k \in UnusedSuffixes(f, p) :
                 \A j \in UnusedSuffixes(f, p) : k <= j
    IN  WithName(p, C(Name(p).stem, k))

\* Trash.run({'path': p}, simulate): p and all below it moved to the trash
TrashRun(f, t, p, sim) ==
    IF sim THEN [fs |-> f, trash |-> t]
    ELSE [fs |-> [q \in DOMAIN f |-> IF Under(q, p) THEN NoNode ELSE f[q]],
          trash |-> t \cup { [path |-> q, node |-> f[q]] :
                              q \in { r \in DOMAIN f :
                                        Under(r, p) /\ f[r].kind # "none" } }]

\* variants: overwrite without the trash step; no renaming on a conflict
Branch_NoTrash(conf, ow) == IF conf /\ ~ow THEN "rename" ELSE "report"
Branch_NoRename(conf, ow) == IF conf /\ ow THEN "trash" ELSE "report"

\* lines 90-95: the step the existence check leads to
Branch(conf, ow) ==
    IF conf THEN (IF ow THEN "trash" ELSE "rename") ELSE "report"

\* a variant that keeps the conflicting path
RenamedPath_Keep(f, np) == np

\* line 95
RenamedPath(f, np) == find_unused_filename(f, np)

\* line 97: the path the status message names
ReportedPath(np, res) == np

\* a variant that writes in simulate mode too
WritesFiles_Always(sim) == TRUE

\* line 98
WritesFiles(sim) == ~sim

\* line 100: Path.mkdir(parents=True, exist_ok=True)
RECURSIVE Mkdir(_, _)
Mkdir(f, q) ==
    IF IsDir(f, q) THEN [ok |-> TRUE, fs |-> f]
    ELSE IF Exists(f, q) THEN [ok |-> FALSE, fs |-> f]
    ELSE LET r == Mkdir(f, Parent(q))
         IN  IF r.ok THEN [ok |-> TRUE, fs |-> [r.fs EXCEPT ![q] = Dir]]
             ELSE r

\* a variant that copies the data only (shutil.copy): the copy is dated now
CopiedNode_NoStat(f, src) == File(f[src].data, Now)

\* what shutil.copy2 leaves at its destination when it succeeds
CopiedNode(f, src) == f[src]

\* a variant that refuses to write over an existing destination
Copy2_Exclusive(f, src, dst, env) ==
    IF Exists(f, dst) \/ ~IsFile(f, src) \/ dst \notin DOMAIN f
    THEN [ok |-> FALSE, fs |-> f, wrote |-> {}]
    ELSE [ok |-> TRUE, fs |-> [f EXCEPT ![dst] = CopiedNode(f, src)],
          wrote |-> {dst}]

\* line 102: shutil.copy2(src, dst); env is what the environment does to the
\* write ("ok", or "full": the disk fills during it)
Copy2(f, src, dst, env) ==
    LET d == IF IsDir(f, dst) THEN Append(dst, Name(src)) ELSE dst
        fail == [ok |-> FALSE, fs |-> f, wrote |-> {}]
    IN  IF Exists(f, src) /\ SameFile(f, src, d) THEN fail
        ELSE IF ~IsFile(f, src) THEN fail
        ELSE IF ~IsDir(f, Parent(d)) \/ d \notin DOMAIN f THEN fail
        ELSE IF env = "full"
             THEN [ok |-> FALSE, fs |-> [f EXCEPT ![d] = Truncated], wrote |-> {d}]
        ELSE [ok |-> TRUE, fs |-> [f EXCEPT ![d] = CopiedNode(f, src)],
              wrote |-> {d}]

NoneValue == [kind |-> "None", path |-> Home]

\* a variant that hands the copy on to the next action
ReturnValue_NewAttrs(a, np) == [kind |-> "attrs", path |-> np]

\* line 105
ReturnValue(a, np) == NoneValue

Unset == [kind |-> "unset", path |-> Home]
Raised == [kind |-> "raised", path |-> Home]

FileExistsMsg == [text |-> "File already exists", path |-> Home]
CopyToMsg(p) == [text |-> "Copy to", path |-> p]

---------------------------------------------------------------------------
(* Initial states *)

\* the filesystems a run starts from: Desktop holds the file a; PDF is missing,
\* a file, or a folder holding any of a and "a 1"
InitFS ==
    { [p \in Paths |->
          IF p = <<N("Desktop")>> THEN Dir
          ELSE IF p = <<N("Desktop"), N("a")>> THEN File(1, 0)
          ELSE IF p = <<N("PDF")>> /\ pdf = "file" THEN File(3, 1)
          ELSE IF p = <<N("PDF")>> /\ pdf = "dir" THEN Dir
          ELSE IF p = <<N("PDF"), N("a")>> /\ pdf = "dir" /\ "a" \in held THEN File(4, 1)
          ELSE IF p = <<N("PDF"), C("a", 1)>> /\ pdf = "dir" /\ "a1" \in held THEN File(5, 0)
          ELSE NoNode] :
        pdf \in {"none", "file", "dir"},
        held \in SUBSET {"a", "a1"} }

NoPrev ==
    [valid |-> FALSE, attrs |-> [path |-> Home, basedir |-> Home, extension |-> ""],
     simulate |-> FALSE, msgs |-> << >>]

NoCall ==
    /\ attrs = [path |-> Home, basedir |-> Home, extension |-> ""]
    /\ simulate = FALSE
    /\ pc = "idle"
    /\ expanded_dest = Template(<< >>, "")
    /\ new_path = Home
    /\ msgs = << >>
    /\ result = Unset
    /\ fs0 = fs
    /\ trash0 = trash
    /\ attrs0 = attrs
    /\ resolved = Home
    /\ fsCheck = fs
    /\ conflict = FALSE
    /\ steps = << >>
    /\ written = {}

Init ==
    /\ fs \in InitFS
    /\ trash = {}
    /\ self \in [dest : Dests, overwrite : BOOLEAN]
    /\ calls = 0
    /\ others = 0
    /\ otherAt = {}
    /\ orig = fs
    /\ prev = NoPrev
    /\ NoCall

---------------------------------------------------------------------------
(* Operations *)

\* Copy.__init__: a Copy action for dest and overwrite
Construct(d, ow) ==
    /\ pc = "idle"
    /\ calls < MaxCalls
    /\ self # [dest |-> d, overwrite |-> ow]
    /\ self' = [dest |-> d, overwrite |-> ow]
    /\ attrs' = [path |-> Home, basedir |-> Home, extension |-> ""]
    /\ attrs0' = attrs'
    /\ expanded_dest' = Template(<< >>, "")
    /\ new_path' = Home
    /\ resolved' = Home
    /\ msgs' = << >>
    /\ result' = Unset
    /\ fs0' = fs
    /\ trash0' = trash
    /\ fsCheck' = fs
    /\ conflict' = FALSE
    /\ steps' = << >>
    /\ written' = {}
    /\ simulate' = FALSE
    /\ prev' = NoPrev
    /\ UNCHANGED <<fs, trash, pc, calls, others, otherAt, orig>>

\* the files the rule engine hands to run: existing files of a folder, named
\* without a counter
Sources(f) == { p \in Paths : Len(p) = 2 /\ IsFile(f, p) /\ Name(p).n = 0 }

\* Copy.run, lines 79-89: the call's entry, up to the resolved destination;
\* with track, the call before is kept for comparison
RunResolve(p, sim, track) ==
    /\ pc = "idle"
    /\ calls < MaxCalls
    \* a behaviour is followed to the end of the call another process acts in
    /\ others = 0
    /\ p \in Sources(fs)
    /\ LET a == [path |-> p, basedir |-> Parent(p), extension |-> "pdf"]
           e == ExpandedDest(self.dest, a)
       IN  /\ fullpath(e) \in Paths
           /\ attrs' = a
           /\ attrs0' = a
           /\ expanded_dest' = e
           /\ new_path' = fullpath(e)
           /\ resolved' = fullpath(e)
    /\ simulate' = sim
    /\ calls' = calls + 1
    /\ pc' = "check"
    /\ msgs' = << >>
    /\ result' = Unset
    /\ fs0' = fs
    /\ trash0' = trash
    /\ fsCheck' = fs
    /\ conflict' = FALSE
    /\ steps' = << >>
    /\ written' = {}
    /\ prev' = IF track /\ pc = "idle" /\ result # Unset /\ fs = fs0 /\ trash = trash0
               THEN [valid |-> TRUE, attrs |-> attrs, simulate |-> simulate,
                     msgs |-> msgs]
               ELSE NoPrev
    /\ UNCHANGED <<fs, trash, self, others, otherAt, orig>>

\* lines 90-92 and 94: the existence check and the branch it takes
RunCheck ==
    /\ pc = "check"
    /\ conflict' = ConflictAt(fs, new_path, attrs.path)
    /\ fsCheck' = fs
    /\ msgs' = IF conflict' /\ self.overwrite THEN Append(msgs, FileExistsMsg)
               ELSE msgs
    /\ pc' = Branch(conflict', self.overwrite)
    /\ UNCHANGED <<fs, trash, self, attrs, simulate, expanded_dest, new_path,
                   result, calls, others, otherAt, orig, fs0, trash0, attrs0, resolved,
                   steps, written, prev>>

\* line 93: Trash().run({'path': new_path}, simulate=simulate)
RunTrash ==
    /\ pc = "trash"
    /\ LET r == TrashRun(fs, trash, new_path, simulate)
       IN  fs' = r.fs /\ trash' = r.trash
    /\ steps' = Append(steps, "trash")
    /\ pc' = "report"
    /\ UNCHANGED <<self, attrs, simulate, expanded_dest, new_path, msgs, result,
                   calls, others, otherAt, orig, fs0, trash0, attrs0, resolved, fsCheck,
                   conflict, written, prev>>

\* line 95: new_path = find_unused_filename(new_path)
RunRename ==
    /\ pc = "rename"
    /\ UnusedSuffixes(fs, new_path) # {}
    /\ new_path' = RenamedPath(fs, new_path)
    /\ steps' = Append(steps, "rename")
    /\ pc' = "report"
    /\ UNCHANGED <<fs, trash, self, attrs, simulate, expanded_dest, msgs, result,
                   calls, others, otherAt, orig, fs0, trash0, attrs0, resolved, fsCheck,
                   conflict, written, prev>>

\* a variant that reports inside the "if not simulate" block
RunReport_RealOnly ==
    /\ pc = "report"
    /\ msgs' = IF simulate THEN msgs
               ELSE Append(msgs, CopyToMsg(ReportedPath(new_path, resolved)))
    /\ pc' = IF WritesFiles(simulate) THEN "mkdir" ELSE "return"
    /\ UNCHANGED <<fs, trash, self, attrs, simulate, expanded_dest, new_path,
                   result, calls, others, otherAt, orig, fs0, trash0, attrs0,
                   resolved, fsCheck, conflict, steps, written, prev>>

\* lines 97-98: the status message, and whether the call goes on to write
RunReport ==
    /\ pc = "report"
    /\ msgs' = Append(msgs, CopyToMsg(ReportedPath(new_path, resolved)))
    /\ pc' = IF WritesFiles(simulate) THEN "mkdir" ELSE "return"
    /\ UNCHANGED <<fs, trash, self, attrs, simulate, expanded_dest, new_path,
                   result, calls, others, otherAt, orig, fs0, trash0, attrs0, resolved,
                   fsCheck, conflict, steps, written, prev>>

\* line 100: new_path.parent.mkdir(parents=True, exist_ok=True); the error of a
\* parent that is a file propagates
RunMkdir ==
    /\ pc = "mkdir"
    /\ LET r == Mkdir(fs, Parent(new_path))
       IN  IF r.ok
           THEN /\ fs' = r.fs
                /\ pc' = "copy"
                /\ result' = result
           ELSE /\ fs' = fs
                /\ pc' = "idle"
                /\ result' = Raised
    /\ steps' = Append(steps, "mkdir")
    /\ UNCHANGED <<trash, self, attrs, simulate, expanded_dest, new_path, msgs,
                   calls, others, otherAt, orig, fs0, trash0, attrs0, resolved, fsCheck,
                   conflict, written, prev>>

\* line 102: shutil.copy2(src=str(path), dst=str(new_path)); its error propagates
RunCopy ==
    /\ pc = "copy"
    /\ \E env \in {"ok", "full"} :
          LET r == Copy2(fs, attrs.path, new_path, env)
          IN  /\ fs' = r.fs
              /\ written' = written \cup r.wrote
              /\ IF r.ok
                 THEN pc' = "return" /\ result' = result
                 ELSE pc' = "idle" /\ result' = Raised
    /\ steps' = Append(steps, "copy")
    /\ UNCHANGED <<trash, self, attrs, simulate, expanded_dest, new_path, msgs,
                   calls, others, otherAt, orig, fs0, trash0, attrs0, resolved, fsCheck,
                   conflict, prev>>

\* line 105: return None
RunReturn ==
    /\ pc = "return"
    /\ result' = ReturnValue(attrs, new_path)
    /\ pc' = "idle"
    /\ UNCHANGED <<fs, trash, self, attrs, simulate, expanded_dest, new_path,
                   msgs, calls, others, otherAt, orig, fs0, trash0, attrs0, resolved,
                   fsCheck, conflict, steps, written, prev>>

\* another process creates a file at the path the call is about to copy to
OtherFile == File(9, Now)
OtherCreates ==
    /\ pc \in {"check", "trash", "rename", "report", "mkdir", "copy"}
    /\ others < MaxOther
    /\ ~Exists(fs, new_path)
    /\ IsDir(fs, Parent(new_path))
    /\ fs' = [fs EXCEPT ![new_path] = OtherFile]
    /\ others' = others + 1
    /\ otherAt' = otherAt \cup {[path |-> new_path, at |-> pc,
                                  after |-> Len(steps)]}
    /\ UNCHANGED <<trash, self, attrs, simulate, pc, expanded_dest, new_path,
                   msgs, result, calls, orig, fs0, trash0, attrs0, resolved,
                   fsCheck, conflict, steps, written, prev>>

\* the steps of a call in flight
RunStep ==
    \/ RunCheck
    \/ RunTrash
    \/ RunRename
    \/ RunReport
    \/ RunMkdir
    \/ RunCopy
    \/ RunReturn

Next ==
    \/ \E d \in Dests, ow \in BOOLEAN : Construct(d, ow)
    \/ \E p \in Paths, sim \in BOOLEAN : RunResolve(p, sim, FALSE)
    \/ RunStep

NextPair ==
    \/ \E d \in Dests, ow \in BOOLEAN : Construct(d, ow)
    \/ \E p \in Paths, sim \in BOOLEAN : RunResolve(p, sim, TRUE)
    \/ RunStep

\* the program alone
Spec == Init /\ [][Next]_vars

\* the program alone, each call keeping the call before it for comparison
SpecPair == Init /\ [][NextPair]_vars

\* the program and another process on the same filesystem
SpecRace == Init /\ [][Next \/ OtherCreates]_vars

---------------------------------------------------------------------------
(* Properties *)

InCall == pc # "idle"
Ended == pc = "idle" /\ result # Unset
Returned == pc = "idle" /\ result = NoneValue
PastCheck == pc \in {"trash", "rename", "report", "mkdir", "copy", "return"} \/ Ended
PastReport == pc \in {"mkdir", "copy", "return"} \/ Ended
StepsRun == { steps[i] : i \in DOMAIN steps }
\* the source file as it was at the call's entry
SrcNode == fs0[attrs.path]
\* the expanded destination ends in a separator
FolderDest == EndsWithSep(fill_template_tags(self.dest, attrs))

\* C1: with simulate=True, in every state of a call and after it, the
\* filesystem and the trash are what they were at the call's entry: no folder
\* is created, no file is trashed or written, also in the overwrite branch
\* where Trash().run is called with simulate passed through.
C1_SimulateChangesNothing ==
    (simulate /\ (InCall \/ Ended)) => (fs = fs0 /\ trash = trash0)

C1_Witness ==
    /\ Returned /\ simulate /\ conflict /\ self.overwrite
    /\ steps = <<"trash">>

\* C2: when the resolved destination exists, is not the source and overwrite
\* is false, a non-simulated call trashes nothing and changes no file that
\* existed at its entry, and a call that returns has copied the source to a
\* sibling of the resolved destination, named with a counter, that did not
\* exist at the entry.
C2_RenamedCopy ==
    (conflict /\ ~self.overwrite /\ ~simulate /\ PastCheck) =>
        /\ trash = trash0
        /\ \A p \in Paths : Exists(fs0, p) => fs[p] = fs0[p]
        /\ written \subseteq {new_path}
        /\ Returned =>
              /\ written = {new_path}
              /\ new_path # resolved
              /\ Parent(new_path) = Parent(resolved)
              /\ Name(new_path).stem = Name(resolved).stem
              /\ Name(new_path).n >= FirstSuffix
              /\ ~Exists(fs0, new_path)
              /\ fs[new_path] = SrcNode

C2_Witness ==
    /\ Returned /\ conflict /\ ~self.overwrite /\ ~simulate
    /\ Name(new_path).n > FirstSuffix
    /\ fs[resolved] = fs0[resolved]

\* C3 as stated: whenever the resolved destination exists and overwrite is
\* true, a non-simulated call has trashed the file at that path before its
\* copy step runs, and after a call that returns the destination holds the
\* source's content.
C3_Original ==
    /\ (pc = "copy" /\ Exists(fsCheck, resolved) /\ self.overwrite /\ ~simulate)
          => [path |-> resolved, node |-> fsCheck[resolved]] \in trash
    /\ (Returned /\ Exists(fsCheck, resolved) /\ self.overwrite /\ ~simulate)
          => fs[resolved] = SrcNode

\* C3 amended: when the resolved destination exists, is not the source, and
\* overwrite is true, a non-simulated call trashes what is at that path as its
\* first step: the copy step runs after the trash step and finds the path
\* free, and after a call that returns the destination holds the source's
\* content.
C3_Amended ==
    (conflict /\ self.overwrite /\ ~simulate) =>
        /\ (pc \in {"report", "mkdir", "copy", "return"} \/ Ended) =>
              /\ Len(steps) > 0 /\ steps[1] = "trash"
              /\ \A p \in Paths :
                    (Under(p, resolved) /\ Exists(fsCheck, p))
                        => [path |-> p, node |-> fsCheck[p]] \in trash
        /\ \A i \in DOMAIN steps :
              steps[i] = "copy" => \E j \in 1..(i - 1) : steps[j] = "trash"
        /\ pc = "copy" => ~Exists(fs, resolved)
        /\ Returned => fs[resolved] = SrcNode

C3_Witness ==
    /\ Returned /\ conflict /\ self.overwrite /\ ~simulate
    /\ steps = <<"trash", "mkdir", "copy">>
    /\ IsFile(fsCheck, resolved)

\* C4 as stated: for a destination ending in a separator, every file the call
\* writes is named as the source is.
C4_Original ==
    (FolderDest /\ (InCall \/ Ended)) =>
        \A w \in written : Name(w) = Name(attrs.path)

\* C4 amended: for a destination ending in a separator the resolved
\* destination is named as the source is, and the file the call writes is
\* the resolved destination, unless a different file of that name exists in
\* the folder and overwrite is false: then it is a sibling named as the source
\* with a counter appended.
C4_Amended ==
    (FolderDest /\ (InCall \/ Ended)) =>
        /\ Name(resolved) = Name(attrs.path)
        /\ \A w \in written :
              IF conflict /\ ~self.overwrite
              THEN /\ Parent(w) = Parent(resolved)
                   /\ Name(w).stem = Name(attrs.path).stem
                   /\ Name(w).n >= FirstSuffix
              ELSE w = resolved

C4_Witness ==
    /\ Returned /\ ~simulate /\ FolderDest
    /\ conflict /\ self.overwrite
    /\ written = {resolved}

\* C5: when the resolved destination does not exist, a non-simulated call runs
\* neither the trash step nor the renaming step, and one that returns has
\* created the missing parent folder and copied the source to exactly the
\* resolved destination, content and modification time preserved, changing
\* nothing else.
C5_NoConflictCopy ==
    (~simulate /\ PastCheck /\ ~Exists(fsCheck, resolved)) =>
        /\ "trash" \notin StepsRun
        /\ "rename" \notin StepsRun
        /\ new_path = resolved
        /\ trash = trash0
        /\ Returned =>
              /\ written = {resolved}
              /\ fs[resolved] = SrcNode
              /\ IsDir(fs, Parent(resolved))
              /\ \A p \in Paths \ {resolved, Parent(resolved)} : fs[p] = fs0[p]

C5_Witness ==
    /\ Returned /\ ~simulate
    /\ ~Exists(fs0, resolved) /\ ~Exists(fs0, Parent(resolved))
    /\ steps = <<"mkdir", "copy">>
    /\ fs[resolved].mtime < Now

\* C6: when the resolved destination is the source itself, the call runs
\* neither the trash step nor the renaming step whatever overwrite is, its copy
\* target is the source path, and it changes nothing: the filesystem and the
\* trash stay what they were at the call's entry.
C6_SameFile ==
    (PastCheck /\ resolved = attrs.path) =>
        /\ ~conflict
        /\ "trash" \notin StepsRun
        /\ "rename" \notin StepsRun
        /\ new_path = attrs.path
        /\ written = {}
        /\ fs = fs0
        /\ trash = trash0

C6_Witness ==
    /\ Ended /\ resolved = attrs.path /\ self.overwrite /\ ~simulate
    /\ steps = <<"mkdir", "copy">>

\* the messages of a call, from its inputs other than simulate
ExpectedMsgs ==
    LET c == Exists(fs0, resolved) /\ resolved # attrs.path
    IN  (IF c /\ self.overwrite THEN <<FileExistsMsg>> ELSE << >>)
        \o <<CopyToMsg(IF c /\ ~self.overwrite
                       THEN find_unused_filename(fs0, resolved)
                       ELSE resolved)>>

\* C7: a simulated and a real call of the same Copy on the same attrs and the
\* same filesystem emit the same status messages; they are determined by the
\* filesystem at the entry, dest, overwrite and attrs, whatever simulate is:
\* 'File already exists' when the destination exists, is not the source and
\* overwrite is true, then 'Copy to' exactly once, with the copy target.
C7_SameMessages ==
    /\ (prev.valid /\ prev.attrs = attrs /\ prev.simulate # simulate /\ PastReport)
          => msgs = prev.msgs
    /\ PastReport => msgs = ExpectedMsgs
    /\ (InCall /\ ~PastReport) => \A i \in DOMAIN msgs : msgs[i].text # "Copy to"

C7_Witness ==
    /\ prev.valid /\ prev.attrs = attrs /\ prev.simulate /\ ~simulate
    /\ Returned /\ conflict /\ self.overwrite
    /\ msgs = <<FileExistsMsg, CopyToMsg(resolved)>>
    /\ fs # fs0

\* C8: a call never changes attrs, and every call that completes returns
\* None, also when the copy target is not the expanded destination.
C8_ReturnsNone ==
    /\ attrs = attrs0
    /\ result \in {Unset, Raised, NoneValue}

C8_Witness ==
    /\ Returned /\ ~simulate
    /\ new_path # fullpath(expanded_dest)
    /\ written = {new_path}

\* C9: when another process creates a file at the copy target after the
\* existence check (and after the renaming), a non-simulated call whose source
\* is still there runs no trash or renaming step any more and writes over that
\* file: after the call the path holds the source's content (or what a failed
\* write left of it), not the other process's file.
C9_RaceOverwrites ==
    \A r \in otherAt :
        (r.at \in {"report", "mkdir", "copy"} /\ ~simulate /\ Ended
            /\ IsFile(fs, attrs.path)) =>
            /\ r.path = new_path
            /\ written = {new_path}
            /\ fs[new_path] \in {SrcNode, Truncated}
            /\ \A i \in DOMAIN steps :
                  i > r.after => steps[i] \notin {"trash", "rename"}

C9_Witness ==
    /\ Returned /\ ~simulate /\ ~self.overwrite /\ conflict
    /\ \E r \in otherAt : r.at = "report" /\ fs[r.path] = SrcNode
    /\ \A t \in trash : t.node # OtherFile

\* C10: with no other process, in every state of every sequence of calls,
\* each file that existed before the first call still has its content at its
\* path or in the trash, and every path a call has written either did not
\* exist at the call's existence check or was trashed first by that call.
C10_NoContentLost ==
    /\ \A p \in Paths :
          IsFile(orig, p) =>
              \/ fs[p] = orig[p]
              \/ [path |-> p, node |-> orig[p]] \in trash
    /\ \A w \in written :
          \/ ~Exists(fsCheck, w)
          \/ /\ Len(steps) > 0 /\ steps[1] = "trash"
             /\ w = resolved
             /\ [path |-> w, node |-> fsCheck[w]] \in trash

C10_Witness ==
    /\ Ended /\ result = Raised /\ calls = 2
    /\ \E p \in Paths :
          /\ IsFile(orig, p)
          /\ fs[p] = Truncated
          /\ [path |-> p, node |-> orig[p]] \in trash

====
